---- MODULE Spec2Model ----
(***************************************************************************)
(* LaBGen-P: the driver (main) of the background generator, with the       *)
(* collaborators it calls (FrameDifferenceC1L1, CounterMotionProba,        *)
(* PatchesHistory, Utils::getROIs), whose sources are not available and    *)
(* are modelled from their description.                                    *)
(*                                                                         *)
(* The frames vector is represented by its size (numFrames) and by the     *)
(* value read at the cursor: element i is read by one loop iteration only, *)
(* so its value is drawn when that iteration dereferences the cursor.      *)
(***************************************************************************)
EXTENDS Integers, Sequences, FiniteSets, TLC

(* ------------------------------ bounds --------------------------------- *)
MaxPixels == 1
MaxFrames == 5
MaxS == 2
MaxN == 1
MaxOverrun == 1
MaxKernelDim == 8
MaxKernelN == 4

(* ------------------------- program constants --------------------------- *)
DefaultS == 19
DefaultN == 3
NumChannels == 3

\* Content of a cv::Mat element that was allocated and never written.
Garbage == 0 - 1

\* Pixel values delivered by the decoder: a palette of three-channel pixels.
Palette == { <<0, 1, 1>>, <<1, 0, 1>> }

Channels == 1..NumChannels

(* ------------------------------ helpers -------------------------------- *)
Abs(x) == IF x < 0 THEN 0 - x ELSE x

Min(a, b) == IF a < b THEN a ELSE b

RECURSIVE SumOver(_, _)
SumOver(f, S) ==
  IF S = {} THEN 0
  ELSE LET x == CHOOSE y \in S : TRUE IN f[x] + SumOver(f, S \ {x})

RECURSIVE BitOr(_, _)
BitOr(a, b) ==
  IF a = 0 THEN b
  ELSE IF b = 0 THEN a
  ELSE (IF a % 2 = 1 \/ b % 2 = 1 THEN 1 ELSE 0) + 2 * BitOr(a \div 2, b \div 2)

(* ------------------------- Utils::getROIs ------------------------------ *)
getROIs(h, w) == (1..h) \X (1..w)

FramesOf(h, w) == [getROIs(h, w) -> Palette]

\* cv::Mat(height, width, type): allocated, elements never written.
NewMat(h, w) == [r \in getROIs(h, w) |-> Garbage]

NewImage(h, w) == [r \in getROIs(h, w) |-> [c \in Channels |-> Garbage]]

MatEmpty(m) == DOMAIN m = {}

(* ----------------------- FrameDifferenceC1L1 --------------------------- *)
NullFrameDifference ==
  [inst |-> FALSE, hasPrev |-> FALSE, prev |-> << >>, prevIdx |-> 0]

NewFrameDifference ==
  [inst |-> TRUE, hasPrev |-> FALSE, prev |-> << >>, prevIdx |-> 0]

RawMotion(prev, cur) ==
  [r \in DOMAIN cur |->
     SumOver([c \in Channels |-> Abs(cur[r][c] - prev[r][c])], Channels)]

\* process(frame, map): the first call only records the frame; later calls
\* write the difference with the recorded frame and record the new one.
FDiffProcess(fd, frame, idx, map) ==
  [fd  |-> [inst |-> TRUE, hasPrev |-> TRUE, prev |-> frame, prevIdx |-> idx],
   map |-> IF fd.hasPrev THEN RawMotion(fd.prev, frame) ELSE map]

\* process fails when the frame and the recorded one differ in size.
FDiffFails(fd, frame) == fd.hasPrev /\ DOMAIN fd.prev # DOMAIN frame

(* ------------------------ CounterMotionProba --------------------------- *)
Window(r, k) ==
  ((r[1] - (k \div 2))..(r[1] + (k \div 2))) \X
  ((r[2] - (k \div 2))..(r[2] + (k \div 2)))

\* compute(in, out): sum of the K x K neighbourhood, clamped to the frame.
FilterCompute(k, in) ==
  [r \in DOMAIN in |-> SumOver(in, Window(r, k) \cap DOMAIN in)]

(* --------------------------- PatchesHistory ---------------------------- *)
NoHistory == [S |-> 0, count |-> 0, hist |-> << >>]

NewPatchesHistory(rois, s) ==
  [S |-> s, count |-> 0, hist |-> [r \in rois |-> << >>]]

\* The held candidate with the maximum score, the earliest-inserted on ties.
WorstIndex(h) ==
  CHOOSE i \in 1..Len(h) :
    \A j \in 1..Len(h) :
      h[j].score < h[i].score \/ (h[j].score = h[i].score /\ j >= i)

RemoveAt(h, i) == SubSeq(h, 1, i - 1) \o SubSeq(h, i + 1, Len(h))

RegionInsert(h, s, cand) ==
  IF Len(h) < s THEN Append(h, cand)
  ELSE IF Len(h) = 0 THEN h
  ELSE IF cand.score < h[WorstIndex(h)].score
       THEN Append(RemoveAt(h, WorstIndex(h)), cand)
       ELSE h

PatchesInsert(H, scoreMap, frame) ==
  [H EXCEPT
     !.count = @ + 1,
     !.hist  = [r \in DOMAIN @ |->
                  RegionInsert(@[r], H.S,
                               [value |-> frame[r],
                                score |-> scoreMap[r],
                                order |-> H.count + 1])]]

Firsts(h, size) == SubSeq(h, 1, Min(size, Len(h)))

\* Lower median: the element at position ceil(m/2) of the sorted values.
LowerMedian(vals) ==
  SortSeq(vals, LAMBDA a, b : a < b)[(Len(vals) + 1) \div 2]

RegionMedian(h, size) ==
  [c \in Channels |->
     LowerMedian([i \in 1..Len(Firsts(h, size)) |-> h[i].value[c]])]

MedianFails(H) == \E r \in DOMAIN H.hist : Len(H.hist[r]) = 0

PatchesMedian(H, size) ==
  [r \in DOMAIN H.hist |-> RegionMedian(H.hist[r], size)]

(* ------------------------------- state --------------------------------- *)
VARIABLES
  pc,                     \* position in main
  error,                  \* the exception that ended the run, "" if none
  sParam, nParam, visualization,
  height, width,
  numFrames,              \* frames.size()
  kernel,                 \* the window size handed to CounterMotionProba
  probabilityMap, filteredProbabilityMap,
  history, fdiff, firstFrame, numFrame,
  it,                     \* the loop cursor, as an offset from frames.begin()
  background,
  written,                \* the images handed to cv::imwrite, in order
  events,                 \* log of the insert / aggregate / write calls; an
                          \* aggregate carries the frame it previews, 0 for
                          \* the one after the loop
  offered,                \* per region, the scores handed to insert, in order
  argsSeen,               \* what the command line held (summary)
  mismatch,               \* position of the one frame of the sequence whose
                          \* size is not height x width, 0 if there is none
  delivered,              \* the first frame read, and whether every frame
                          \* read so far equals it
  shadow                  \* the same run on the same inputs with the
                          \* visualization switched off

vars ==
  << pc, error, sParam, nParam, visualization, height, width, numFrames,
     kernel, probabilityMap, filteredProbabilityMap, history, fdiff,
     firstFrame, numFrame, it, background, written, events, offered,
     argsSeen, mismatch, delivered, shadow >>

configVars == << sParam, nParam, visualization >>
inputVars == << height, width, numFrames, mismatch >>
loopVars ==
  << probabilityMap, filteredProbabilityMap, history, fdiff, firstFrame,
     numFrame, it, offered >>

Args ==
  [help : BOOLEAN, input : BOOLEAN, output : BOOLEAN, default : BOOLEAN,
   hasS : BOOLEAN, s : 0..MaxS, hasN : BOOLEAN, n : 0..MaxN,
   vis : BOOLEAN]

Event(op, frame) == [op |-> op, frame |-> frame]

\* fdiff->process wrote the difference of the frames at prev and at frame.
DiffEvent(prev, frame) == [op |-> "diff", frame |-> frame, prev |-> prev]

NoArgs == [help |-> FALSE, default |-> FALSE, badIO |-> FALSE, badSN |-> FALSE]

ArgsSummary(a) ==
  [help    |-> a.help,
   default |-> a.default,
   badIO   |-> ~a.input \/ ~a.output,
   badSN   |-> ~a.hasS \/ a.s < 1 \/ ~a.hasN \/ a.n < 1]

NothingDelivered == [has |-> FALSE, first |-> << >>, same |-> TRUE]

Deliver(d, frame) ==
  IF d.has THEN [d EXCEPT !.same = @ /\ frame = d.first]
  ELSE [has |-> TRUE, first |-> frame, same |-> TRUE]

\* The part of the state of main that the processing works on.
Run(p, e, pm, fpm, h, fd, ff, nf, i, bg, wr, ev, of) ==
  [pc |-> p, error |-> e, probabilityMap |-> pm,
   filteredProbabilityMap |-> fpm, history |-> h, fdiff |-> fd,
   firstFrame |-> ff, numFrame |-> nf, it |-> i, background |-> bg,
   written |-> wr, events |-> ev, offered |-> of]

Cur ==
  Run(pc, error, probabilityMap, filteredProbabilityMap, history, fdiff,
      firstFrame, numFrame, it, background, written, events, offered)

InitRun(p) ==
  Run(p, "", << >>, << >>, NoHistory, NullFrameDifference, TRUE, 0 - 1, 0,
      << >>, << >>, << >>, << >>)

\* The variables take the values of the run state st.
Becomes(st) ==
  /\ pc' = st.pc
  /\ error' = st.error
  /\ probabilityMap' = st.probabilityMap
  /\ filteredProbabilityMap' = st.filteredProbabilityMap
  /\ history' = st.history
  /\ fdiff' = st.fdiff
  /\ firstFrame' = st.firstFrame
  /\ numFrame' = st.numFrame
  /\ it' = st.it
  /\ background' = st.background
  /\ written' = st.written
  /\ events' = st.events
  /\ offered' = st.offered

Init ==
  /\ pc = "args"
  /\ error = ""
  /\ sParam = 0
  /\ nParam = 0
  /\ visualization = FALSE
  /\ height = 0
  /\ width = 0
  /\ numFrames = 0
  /\ kernel = 0
  /\ probabilityMap = << >>
  /\ filteredProbabilityMap = << >>
  /\ history = NoHistory
  /\ fdiff = NullFrameDifference
  /\ firstFrame = TRUE
  /\ numFrame = 0 - 1
  /\ it = 0
  /\ background = << >>
  /\ written = << >>
  /\ events = << >>
  /\ offered = << >>
  /\ argsSeen = NoArgs
  /\ mismatch = 0
  /\ delivered = NothingDelivered
  /\ shadow = InitRun("args")

(* ------------------------ argument handling ---------------------------- *)
ArgsError_NoSCheck(a) ==
  IF ~a.input THEN "NoInput"
  ELSE IF ~a.output THEN "NoOutput"
  ELSE IF a.default THEN ""
  ELSE IF ~a.hasS THEN "NoS"
  ELSE IF ~a.hasN THEN "NoN"
  ELSE IF a.n < 1 THEN "BadN"
  ELSE ""

\* The first check of main that the arguments a fail, "" if all pass.
ArgsError(a) ==
  IF ~a.input THEN "NoInput"
  ELSE IF ~a.output THEN "NoOutput"
  ELSE IF a.default THEN ""
  ELSE IF ~a.hasS THEN "NoS"
  ELSE IF a.s < 1 THEN "BadS"
  ELSE IF ~a.hasN THEN "NoN"
  ELSE IF a.n < 1 THEN "BadN"
  ELSE ""

\* The configuration main would go on with for the arguments a.
ParsedS(a) ==
  IF a.default THEN DefaultS
  ELSE IF a.input /\ a.output /\ a.hasS THEN a.s ELSE 0

ParsedN(a) ==
  IF a.default THEN DefaultN
  ELSE IF ArgsError(a) \in {"", "BadN"} THEN a.n ELSE 0

ParseArgs ==
  /\ pc = "args"
  /\ \E a \in Args :
       /\ argsSeen' = ArgsSummary(a)
       /\ pc' = IF a.help THEN "help"
                ELSE IF ArgsError(a) # "" THEN "aborted" ELSE "read"
       /\ error' = IF a.help THEN error ELSE ArgsError(a)
       /\ sParam' = IF a.help \/ ~a.input \/ ~a.output THEN sParam
                    ELSE ParsedS(a)
       /\ nParam' = IF a.help \/ ~a.input \/ ~a.output THEN nParam
                    ELSE ParsedN(a)
       /\ visualization' = IF ~a.help /\ ArgsError(a) = "" THEN a.vis
                           ELSE visualization
  /\ shadow' = [shadow EXCEPT !.pc = pc', !.error = error']
  /\ UNCHANGED << inputVars, kernel, loopVars, background, written, events,
                  delivered >>

(* ------------------------- reading sequence ---------------------------- *)
ReadSequence ==
  /\ pc = "read"
  /\ \E opened \in BOOLEAN :
       IF ~opened
       THEN /\ pc' = "aborted"
            /\ error' = "CannotOpen"
            /\ UNCHANGED inputVars
       ELSE /\ \E h \in 1..MaxPixels, w \in 1..MaxPixels, n \in 0..MaxFrames :
                 /\ h * w <= MaxPixels
                 /\ height' = h
                 /\ width' = w
                 /\ numFrames' = n
                 /\ mismatch' \in 0..n
            /\ pc' = "setup"
            /\ UNCHANGED error
  /\ shadow' = [shadow EXCEPT !.pc = pc', !.error = error']
  /\ UNCHANGED << configVars, kernel, loopVars, background, written, events,
                  argsSeen, delivered >>

(* ----------------------------- processing ------------------------------ *)
KernelSize_NoOr(h, w, n) == Min(h, w) \div n

KernelSize_RoundDown(h, w, n) ==
  IF Min(h, w) \div n = 0 THEN 1
  ELSE IF (Min(h, w) \div n) % 2 = 1 THEN Min(h, w) \div n
  ELSE (Min(h, w) \div n) - 1

KernelSize(h, w, n) == BitOr(Min(h, w) \div n, 1)

ConstructHistory_OneMore(rois, s) == NewPatchesHistory(rois, s + 1)

ConstructHistory(rois, s) == NewPatchesHistory(rois, s)

SetupRun ==
  Run("loop", error, NewMat(height, width), NewMat(height, width),
      ConstructHistory(getROIs(height, width), sParam), NullFrameDifference,
      TRUE, 0 - 1, 0, NewImage(height, width), written, events,
      [r \in getROIs(height, width) |-> << >>])

Setup ==
  /\ pc = "setup"
  /\ kernel' = KernelSize(height, width, nParam)
  /\ Becomes(SetupRun)
  /\ shadow' = SetupRun
  /\ UNCHANGED << configVars, inputVars, argsSeen, delivered >>

AtEnd_Early(i, n) == i >= n - 1

\* it != end
AtEnd(i, n) == i = n

SkipFrame_Never(ff) == FALSE

\* if (firstFrame) { ++it; firstFrame = false; continue; }
SkipFrame(ff) == ff

FirstFrameAfterSkip_Kept == TRUE

\* firstFrame = false;
FirstFrameAfterSkip == FALSE

\* The cursor after one pass of the body: the for statement's ++it, after
\* the ++it of the skipping branch when it was taken.
NextCursor(i, skipped) == IF skipped THEN (i + 1) + 1 ELSE i + 1

FilterGuard_VisOnly(m, vis) == vis /\ ~MatEmpty(m)

FilterGuard_Never(m, vis) == FALSE

\* if (!probabilityMap.empty()) filter.compute(...)
FilterGuard(m, vis) == ~MatEmpty(m)

InsertCall_Twice(H, scoreMap, frame) ==
  PatchesInsert(PatchesInsert(H, scoreMap, frame), scoreMap, frame)

InsertCall(H, scoreMap, frame) == PatchesInsert(H, scoreMap, frame)

PreviewSize_One(s) == 1

\* The size argument of the preview's history->median(background, sParam).
PreviewSize(s) == s

MedianSize_One(s) == 1

\* The size argument of the final history->median(background, sParam).
MedianSize(s) == s

AfterMedian_Swallow(fails, next) == next

\* An exception leaving history->median is not caught by main.
AfterMedian(fails, next) == IF fails THEN "aborted" ELSE next

\* The frames the vector can hold at position idx (counted from 1).
FrameAt(idx) ==
  IF idx = mismatch THEN FramesOf(height + 1, width)
  ELSE FramesOf(height, width)

\* One pass of the loop body, with visualization vis, on the run state st
\* and the element under the cursor.
Iterate(st, frame, vis) ==
  LET idx == st.it + 1
      fd0 == IF st.firstFrame THEN NewFrameDifference ELSE st.fdiff
      res == FDiffProcess(fd0, frame, idx, st.probabilityMap)
      skip == SkipFrame(st.firstFrame)
      compute == FilterGuard(res.map, vis)
      filt == IF compute THEN FilterCompute(kernel, res.map)
              ELSE st.filteredProbabilityMap
      hist1 == InsertCall(st.history, filt, frame)
      fails == MedianFails(hist1)
      ev1 == IF fd0.hasPrev
             THEN Append(st.events, DiffEvent(fd0.prevIdx, idx))
             ELSE st.events
      ev2 == IF compute THEN Append(ev1, Event("filter", idx)) ELSE ev1
      ev3 == Append(ev2, Event("insert", idx))
      common == [st EXCEPT !.numFrame = @ + 1,
                           !.fdiff = res.fd,
                           !.probabilityMap = res.map,
                           !.it = NextCursor(@, skip)]
  IN  IF FDiffFails(fd0, frame)
      THEN [st EXCEPT !.numFrame = @ + 1,
                      !.pc = "aborted",
                      !.error = "DimensionMismatch"]
      ELSE IF skip
      THEN [common EXCEPT !.firstFrame = FirstFrameAfterSkip,
                          !.events = ev1]
      ELSE IF ~vis
      THEN [common EXCEPT !.filteredProbabilityMap = filt,
                          !.history = hist1,
                          !.offered = [r \in DOMAIN @ |-> Append(@[r], filt[r])],
                          !.events = ev3]
      ELSE [common EXCEPT !.filteredProbabilityMap = filt,
                          !.history = hist1,
                          !.offered = [r \in DOMAIN @ |-> Append(@[r], filt[r])],
                          !.events = Append(ev3, Event("aggregate", idx)),
                          !.pc = AfterMedian(fails, "loop"),
                          !.error = IF fails THEN "EmptyHistory" ELSE @,
                          !.background =
                             IF fails THEN @
                             ELSE PatchesMedian(hist1, PreviewSize(sParam))]

\* The loop has ended: the background is computed.
Finish(st) ==
  LET fails == MedianFails(st.history)
  IN  [st EXCEPT !.pc = AfterMedian(fails, "write"),
                 !.error = IF fails THEN "EmptyHistory" ELSE @,
                 !.events = Append(@, Event("aggregate", 0)),
                 !.background = IF fails THEN @
                                ELSE PatchesMedian(st.history,
                                                   MedianSize(sParam))]

WriteImage(st) ==
  [st EXCEPT !.written = Append(@, st.background),
             !.events = Append(@, Event("write", 0)),
             !.pc = "done"]

CanIterate(st) ==
  /\ st.pc = "loop"
  /\ ~AtEnd(st.it, numFrames)
  /\ st.it - numFrames <= MaxOverrun

\* One pass of the loop body on the element under the cursor. Past the end
\* of the vector the element read is whatever the memory holds.
LoopIteration ==
  /\ CanIterate(Cur)
  /\ \E frame \in FrameAt(it + 1) :
       /\ Becomes(Iterate(Cur, frame, visualization))
       /\ shadow' = IF CanIterate(shadow) /\ shadow.it = it
                    THEN Iterate(shadow, frame, FALSE) ELSE shadow
       /\ delivered' = Deliver(delivered, frame)
  /\ UNCHANGED << configVars, inputVars, kernel, argsSeen >>

\* Reading past the end of the vector can also end the process.
OverrunCrash ==
  /\ pc = "loop"
  /\ it > numFrames
  /\ pc' = "crashed"
  /\ shadow' = IF shadow.pc = "loop" /\ shadow.it > numFrames
               THEN [shadow EXCEPT !.pc = "crashed"] ELSE shadow
  /\ UNCHANGED << error, configVars, inputVars, kernel, loopVars, background,
                  written, events, argsSeen, delivered >>

\* The loop ends and the background is computed.
FinalMedian ==
  /\ pc = "loop"
  /\ AtEnd(it, numFrames)
  /\ Becomes(Finish(Cur))
  /\ shadow' = IF shadow.pc = "loop" /\ AtEnd(shadow.it, numFrames)
               THEN Finish(shadow) ELSE shadow
  /\ UNCHANGED << configVars, inputVars, kernel, argsSeen, delivered >>

ImWrite ==
  /\ pc = "write"
  /\ Becomes(WriteImage(Cur))
  /\ shadow' = IF shadow.pc = "write" THEN WriteImage(shadow) ELSE shadow
  /\ UNCHANGED << configVars, inputVars, kernel, argsSeen, delivered >>

Next ==
  \/ ParseArgs
  \/ ReadSequence
  \/ Setup
  \/ LoopIteration
  \/ OverrunCrash
  \/ FinalMedian
  \/ ImWrite

Spec == Init /\ [][Next]_vars

(* ---- the window size alone, over a wider range of dimensions ---------- *)
InitKernel ==
  /\ pc = "setup"
  /\ error = ""
  /\ sParam = 1
  /\ nParam \in 1..MaxKernelN
  /\ visualization = FALSE
  /\ height \in 1..MaxKernelDim
  /\ width \in 1..MaxKernelDim
  /\ numFrames = 0
  /\ kernel = 0
  /\ probabilityMap = << >>
  /\ filteredProbabilityMap = << >>
  /\ history = NoHistory
  /\ fdiff = NullFrameDifference
  /\ firstFrame = TRUE
  /\ numFrame = 0 - 1
  /\ it = 0
  /\ background = << >>
  /\ written = << >>
  /\ events = << >>
  /\ offered = << >>
  /\ argsSeen = NoArgs
  /\ mismatch = 0
  /\ delivered = NothingDelivered
  /\ shadow = InitRun("setup")

NextKernel == Setup

SpecKernel == InitKernel /\ [][NextKernel]_vars

(* ======================== properties of a run ========================== *)
Regions == DOMAIN history.hist

Held(r) == history.hist[r]

IsInsert(e) == e.op = "insert"

Inserts == SelectSeq(events, IsInsert)

InsertedFrames == [i \in 1..Len(Inserts) |-> Inserts[i].frame]

LastEvent == events[Len(events)]

TerminalAggregate == Event("aggregate", 0)

LoopExited == \E i \in DOMAIN events : events[i] = TerminalAggregate

ReachedProcessing ==
  \/ pc \in {"loop", "write", "done", "crashed"}
  \/ pc = "aborted" /\ error = "EmptyHistory"

RunEnded == pc \in {"help", "aborted", "crashed", "done"}

ScoresOf(h) == [i \in 1..Len(h) |-> h[i].score]

Ascending(s) == SortSeq(s, LAMBDA a, b : a < b)

MaxScore(h) == CHOOSE m \in {h[i].score : i \in 1..Len(h)} :
                 \A i \in 1..Len(h) : h[i].score <= m

\* C1: once the loop has ended on a sequence of n >= 2 frames, the frames
\* offered to insert are exactly frames 2, 3, ..., n, each once and in order.
C1_EveryLaterFrameInserted ==
  (LoopExited /\ numFrames >= 2) =>
    InsertedFrames = [i \in 1..(numFrames - 1) |-> i + 1]

\* C2: the first frame is never offered to the history, and while only the
\* first frame has been handled every region's history is empty.
C2_FirstFrameExcluded ==
  /\ \A i \in DOMAIN events : IsInsert(events[i]) => events[i].frame # 1
  /\ numFrame <= 0 => \A r \in Regions : Held(r) = << >>

C2_Witness ==
  pc = "loop" /\ numFrame = 0 /\ ~firstFrame /\ fdiff.prevIdx = 1 /\ it > 0

\* C3: every region holds at most S candidates, S being the capacity the
\* history was constructed with (sParam).
C3_Capacity == \A r \in Regions : Len(Held(r)) <= sParam

C3_Witness ==
  \E r \in Regions : Len(Held(r)) = sParam /\ Len(offered[r]) > sParam

\* C4: the scores held for a region are the min(S, k) lowest of the k scores
\* offered for it so far, as multisets.
C4_LowestScores ==
  \A r \in Regions :
    Ascending(ScoresOf(Held(r))) =
      SubSeq(Ascending(offered[r]), 1, Min(sParam, Len(offered[r])))

C4_Witness ==
  \E r \in Regions :
    /\ Len(offered[r]) > sParam
    /\ \E i, j \in 1..Len(offered[r]) : i < j /\ offered[r][j] < offered[r][i]
    /\ \E i \in 1..Len(offered[r]) : offered[r][i] > MaxScore(Held(r))

\* C5: an insert into a region that holds S candidates, with a score
\* strictly below the maximum held score, removes the earliest-inserted
\* candidate of maximum score and appends the new one, keeping the others in
\* order; with a score at or above the maximum it leaves the region as it is.
C5_EvictionStep ==
  \A r \in Regions :
    (/\ Len(offered'[r]) = Len(offered[r]) + 1
     /\ Len(Held(r)) = sParam
     /\ sParam >= 1) =>
      LET h == Held(r)
          h2 == history'.hist[r]
          new == offered'[r][Len(offered'[r])]
          mx == MaxScore(h)
      IN  IF new < mx
          THEN \E w \in 1..Len(h) :
                 /\ h[w].score = mx
                 /\ \A j \in 1..(w - 1) : h[j].score < mx
                 /\ Len(h2) = Len(h)
                 /\ h2[Len(h2)].score = new
                 /\ h2 = Append(RemoveAt(h, w), h2[Len(h2)])
          ELSE h2 = h

\* C5: every step of a run obeys the eviction rule on full regions.
C5_Eviction == [][C5_EvictionStep]_vars

\* A full region of capacity 2 that held two candidates of equal score and
\* was then offered a strictly lower one: it holds the second and the third.
C5_Witness ==
  \E r \in Regions :
    /\ sParam = 2
    /\ Len(offered[r]) = 3
    /\ offered[r][1] = offered[r][2]
    /\ offered[r][3] < offered[r][2]
    /\ Len(Held(r)) = 2
    /\ Held(r)[1].order = 2
    /\ Held(r)[2].order = 3

\* C6: right after an aggregation, each channel of each region of the
\* background is the lower median of that channel over the held candidates:
\* a held value v with fewer than ceil(m/2) held values below it and at
\* least ceil(m/2) held values at or below it.
C6_LowerMedian ==
  (/\ Len(events) > 0
   /\ LastEvent.op \in {"aggregate", "write"}
   /\ error = "") =>
    \A r \in Regions : \A c \in Channels :
      LET h == Held(r)
          m == Len(h)
          k == (m + 1) \div 2
          v == background[r][c]
      IN  /\ m >= 1
          /\ \E i \in 1..m : h[i].value[c] = v
          /\ Cardinality({i \in 1..m : h[i].value[c] < v}) < k
          /\ Cardinality({i \in 1..m : h[i].value[c] <= v}) >= k

\* An aggregation over two held candidates, fewer than the capacity, whose
\* first channel differs: the result is the lower of the two.
C6_Witness ==
  /\ Len(events) > 0
  /\ LastEvent.op = "aggregate"
  /\ error = ""
  /\ \E r \in Regions :
       /\ Len(Held(r)) = 2
       /\ sParam > 2
       /\ Held(r)[1].value[1] > Held(r)[2].value[1]
       /\ background[r][1] = Held(r)[2].value[1]

WriteEvents == SelectSeq(events, LAMBDA e : e.op = "write")

\* Every write directly follows the aggregate made after the loop, which
\* follows every insertion, and the cursor is at the end of the sequence.
WriteAfterTerminalAggregate ==
  \A i \in DOMAIN events :
    events[i].op = "write" =>
      /\ i > 1
      /\ events[i - 1] = TerminalAggregate
      /\ \A j \in DOMAIN events : IsInsert(events[j]) => j < i - 1
      /\ \A j \in DOMAIN events : events[j].op = "write" => j = i
      /\ it = numFrames

\* C7 as stated: every run that reaches processing has, when it ends,
\* written exactly one image, after the terminal aggregate.
C7_OneImagePerProcessingRun ==
  (RunEnded /\ ReachedProcessing) =>
    (Len(written) = 1 /\ Len(WriteEvents) = 1 /\ WriteAfterTerminalAggregate)

\* C7, amended: at most one image is written in a run, exactly one in a run
\* that ends normally after processing, and none in a run that ends
\* otherwise; a write directly follows the aggregate made after the loop,
\* with every insertion before that aggregate and the cursor at the end.
C7_AtMostOneImage ==
  /\ Len(written) <= 1
  /\ Len(WriteEvents) = Len(written)
  /\ WriteAfterTerminalAggregate
  /\ pc = "done" => Len(written) = 1
  /\ pc \in {"aborted", "crashed", "help"} => Len(written) = 0

C7_Witness ==
  /\ pc = "done"
  /\ Len(written) = 1
  /\ Len(Inserts) >= 2
  /\ written[1] = background

\* C8: an aggregation requested while a region holds no candidate ends the
\* run with EmptyHistory, and no image is written.
C8_EmptyHistoryFails ==
  /\ (/\ Len(events) > 0
      /\ LastEvent.op = "aggregate"
      /\ \E r \in Regions : Held(r) = << >>)
       => (pc = "aborted" /\ error = "EmptyHistory")
  /\ (\E i \in DOMAIN events :
        /\ events[i].op = "aggregate"
        /\ \E r \in Regions : Held(r) = << >>)
       => written = << >>
  /\ error = "EmptyHistory" => (pc = "aborted" /\ written = << >>)

C8_Witness ==
  /\ pc = "aborted"
  /\ error = "EmptyHistory"
  /\ numFrames = 0
  /\ LastEvent = TerminalAggregate
  /\ written = << >>

\* C9: on a sequence of at least two frames, every aggregate is requested
\* while every region holds at least one candidate.
C9_AggregateNeverEmpty ==
  (/\ numFrames >= 2
   /\ Len(events) > 0
   /\ LastEvent.op = "aggregate") =>
    \A r \in Regions : Len(Held(r)) >= 1

\* C10: for H, W, N >= 1 the window size handed to the filter is odd and at
\* least 1.
C10_KernelOdd ==
  (pc = "loop" /\ height >= 1 /\ width >= 1 /\ nParam >= 1) =>
    (kernel % 2 = 1 /\ kernel >= 1)

\* A window size that the forcing of the lowest bit changed.
C10_Witness ==
  /\ pc = "loop"
  /\ kernel > 1
  /\ (Min(height, width) \div nParam) % 2 = 0
  /\ nParam > 1

Quotient == Min(height, width) \div nParam

\* C11 as stated: the window size is the largest odd integer at or below
\* floor(min(H, W) / N), or 1 if there is none, and so never exceeds
\* max(1, floor(min(H, W) / N)).
C11_KernelRoundsDown ==
  (pc = "loop" /\ height >= 1 /\ width >= 1 /\ nParam >= 1) =>
    /\ kernel = (IF Quotient = 0 THEN 1
                 ELSE IF Quotient % 2 = 1 THEN Quotient ELSE Quotient - 1)
    /\ kernel <= (IF Quotient < 1 THEN 1 ELSE Quotient)

\* C11, amended: the window size is the smallest odd integer at or above
\* floor(min(H, W) / N): the quotient itself when it is odd, the quotient
\* plus one when it is even.
C11_KernelRoundsUp ==
  (pc = "loop" /\ height >= 1 /\ width >= 1 /\ nParam >= 1) =>
    /\ kernel % 2 = 1
    /\ kernel >= Quotient
    /\ kernel <= Quotient + 1

\* An even, positive quotient: the window size is one above it.
C11_Witness ==
  /\ pc = "loop"
  /\ Quotient >= 2
  /\ Quotient % 2 = 0
  /\ kernel = Quotient + 1

ConfigErrors == {"NoInput", "NoOutput", "NoS", "BadS", "NoN", "BadN"}

NothingDecoded ==
  /\ height = 0
  /\ width = 0
  /\ numFrames = 0
  /\ ~delivered.has
  /\ events = << >>
  /\ written = << >>

EndedInConfigError ==
  pc = "aborted" /\ error \in ConfigErrors /\ NothingDecoded

PastConfiguration == pc \in {"read", "setup", "loop", "write", "done", "crashed"}

\* C12 as stated: a command line with S < 1, N < 1 or a missing input,
\* output, S or N always ends in a configuration error before any frame is
\* decoded, and processing is only reached with S >= 1 and N >= 1.
C12_InvalidAlwaysRejected ==
  /\ (pc # "args" /\ (argsSeen.badIO \/ argsSeen.badSN)) => EndedInConfigError
  /\ PastConfiguration => (sParam >= 1 /\ nParam >= 1)

\* C12, amended: unless the help is requested, a missing input or output,
\* and without the default option a missing S or N or an S or N below 1,
\* ends the run in a configuration error before any frame is decoded or any
\* output written; processing is only reached with S >= 1 and N >= 1.
C12_InvalidRejected ==
  /\ (/\ pc # "args"
      /\ ~argsSeen.help
      /\ (argsSeen.badIO \/ (~argsSeen.default /\ argsSeen.badSN)))
       => EndedInConfigError
  /\ PastConfiguration => (sParam >= 1 /\ nParam >= 1)
  /\ (PastConfiguration /\ argsSeen.default) =>
       (sParam = DefaultS /\ nParam = DefaultN)

\* A run given an S below 1 and no default option.
C12_Witness ==
  /\ pc = "aborted"
  /\ error = "BadS"
  /\ sParam < 1
  /\ ~argsSeen.default
  /\ argsSeen.badSN

IsPreview(e) == e.op = "aggregate" /\ e.frame # 0

NotPreview(e) == ~IsPreview(e)

\* C13: the run and the same run without visualization make the same
\* insertions (same frames, same score maps), hold the same history after
\* every step, end alike and write the same image.
C13_PreviewIsObserver ==
  /\ shadow.pc = pc
  /\ shadow.error = error
  /\ shadow.it = it
  /\ shadow.history = history
  /\ shadow.offered = offered
  /\ shadow.written = written
  /\ shadow.events = SelectSeq(events, NotPreview)

\* A visualized run that showed two previews and wrote its image.
C13_Witness ==
  /\ visualization
  /\ pc = "done"
  /\ Len(SelectSeq(events, IsPreview)) >= 2
  /\ Len(written) = 1
  /\ shadow.written = written

\* C14: an aggregate leaves the history as it was, and the aggregate after
\* the loop, made right after a preview aggregate with no insertion between
\* them, returns the image the preview returned.
C14_AggregateStep ==
  (/\ Len(events') = Len(events) + 1
   /\ events'[Len(events')] = Event("aggregate", 0)) =>
     /\ history' = history
     /\ (Len(events) > 0 /\ IsPreview(events[Len(events)]) /\ error' = "")
          => background' = background

Uniform(frame) == \A r, q \in DOMAIN frame : frame[r] = frame[q]

\* Every frame read so far is the same frame of one colour, and no frame of
\* the sequence has another size.
StaticScene ==
  /\ delivered.has
  /\ delivered.same
  /\ Uniform(delivered.first)
  /\ mismatch = 0

\* C15: on 5 identical frames of one colour every score handed to insert is
\* 0, the run ends normally and the image written has that colour at every
\* pixel.
C15_StaticScene ==
  (numFrames = 5 /\ StaticScene) =>
    /\ \A r \in DOMAIN offered : \A i \in 1..Len(offered[r]) : offered[r][i] = 0
    /\ RunEnded => pc = "done"
    /\ pc = "done" =>
         /\ Len(written) = 1
         /\ \A r \in DOMAIN delivered.first : \A c \in Channels :
              written[1][r][c] = delivered.first[r][c]

C15_Witness ==
  /\ numFrames = 5
  /\ StaticScene
  /\ pc = "done"
  /\ height * width = MaxPixels
  /\ Len(Inserts) >= 1
  /\ Len(written) = 1

\* C16: when a frame of a sequence of two or more frames has a size other
\* than height x width, the run ends in DimensionMismatch, that frame is
\* never inserted, no aggregate is made after the loop and no image is
\* written.
C16_MismatchAborts ==
  (mismatch >= 1 /\ numFrames >= 2) =>
    /\ RunEnded => (pc = "aborted" /\ error = "DimensionMismatch")
    /\ \A i \in DOMAIN events :
         /\ IsInsert(events[i]) => events[i].frame # mismatch
         /\ events[i] # TerminalAggregate
    /\ written = << >>

\* C17: every difference is taken between a frame of the sequence and the
\* frame delivered just before it, and every inserted frame has one.
C17_DiffWithPredecessor ==
  \A i \in DOMAIN events :
    /\ (events[i].op = "diff" /\ events[i].frame <= numFrames)
         => events[i].prev = events[i].frame - 1
    /\ (IsInsert(events[i]) /\ events[i].frame <= numFrames)
         => \E j \in 1..(i - 1) :
              events[j] = DiffEvent(events[i].frame - 1, events[i].frame)

\* C18: the cursor never moves past the end of the sequence, every frame
\* read lies inside it, and the loop does not end in a crash.
C18_CursorWithinSequence ==
  /\ it <= numFrames
  /\ numFrame < numFrames \/ numFrame = 0 - 1
  /\ pc # "crashed"

\* C19: every insert directly follows the filter computation of the same
\* frame, which directly follows the difference of that frame.
C19_DiffFilterInsert ==
  \A i \in DOMAIN events :
    IsInsert(events[i]) =>
      /\ i >= 3
      /\ events[i - 1] = Event("filter", events[i].frame)
      /\ events[i - 2].op = "diff"
      /\ events[i - 2].frame = events[i].frame

C19_Witness ==
  /\ pc = "done"
  /\ Len(Inserts) >= 2
  /\ \E i \in DOMAIN events : events[i] = Event("filter", numFrames)

\* C20: once false, firstFrame stays false, and a pass of the loop that
\* finds it true is the first pass and leaves it false.
C20_FirstFrameStep ==
  /\ ~firstFrame => ~firstFrame'
  /\ (firstFrame /\ numFrame' = numFrame + 1) =>
       (~firstFrame' /\ numFrame = 0 - 1)

C20_FirstFrameOnce == [][C20_FirstFrameStep]_vars

C20_Witness ==
  /\ pc = "loop"
  /\ ~firstFrame
  /\ numFrame >= 2
  /\ fdiff.inst

====
